---- MODULE Spec2Model ----
(***************************************************************************)
(* Model of easyminio.S3Service.DownloadDirectory (src/easyminio.go).      *)
(* The calling goroutine ranges over the listing channel and starts one    *)
(* goroutine per entry; a further goroutine waits on the WaitGroup and     *)
(* closes the unbuffered error channel; the caller drains that channel.    *)
(* Strings are sequences of one-character strings.                         *)
(***************************************************************************)
EXTENDS Integers, Sequences, FiniteSets, TLC

\* ---------------------------------------------------------------- bounds
MaxList == 3
MaxPrefixLen == 1
MaxSuffixLen == 2

Alphabet == {"/", "a"}
Sep == <<"/">>

\* ------------------------------------------------------- string helpers
StringsUpTo(n) == UNION {[1..k -> Alphabet] : k \in 0..n}

\* strings.HasSuffix
HasSuffix(s, suffix) ==
    /\ Len(s) >= Len(suffix)
    /\ SubSeq(s, Len(s) - Len(suffix) + 1, Len(s)) = suffix

\* strings.HasPrefix, as used by strings.TrimPrefix
HasPrefix(s, prefix) ==
    /\ Len(s) >= Len(prefix)
    /\ SubSeq(s, 1, Len(prefix)) = prefix

TrimPrefix_Always(s, prefix) == SubSeq(s, Len(prefix) + 1, Len(s))

\* strings.TrimPrefix: s without the leading prefix, s itself when s does
\* not start with prefix
TrimPrefix(s, prefix) ==
    IF HasPrefix(s, prefix) THEN SubSeq(s, Len(prefix) + 1, Len(s)) ELSE s

\* fileName := strings.TrimPrefix(obj.Key, path+"/")
FileName(key, p) == TrimPrefix(key, p \o Sep)

\* the second argument of s.DownloadFile: localPath+"/"+fileName
LocalDest(key, p, lp) == lp \o Sep \o FileName(key, p)

\* the goroutine's test for a directory marker
IsDirKey(key) == HasSuffix(key, Sep)

\* --------------------------------------------------- the listing channel
\* byte order of the characters, the order in which the store lists keys
ByteOf(c) == CASE c = "/" -> 47 [] c = "a" -> 97 [] OTHER -> 0

RECURSIVE LexLess(_, _)
LexLess(a, b) ==
    IF b = <<>> THEN FALSE
    ELSE IF a = <<>> THEN TRUE
    ELSE IF ByteOf(Head(a)) # ByteOf(Head(b)) THEN ByteOf(Head(a)) < ByteOf(Head(b))
    ELSE LexLess(Tail(a), Tail(b))

SortedSeq(S) ==
    CHOOSE s \in [1..Cardinality(S) -> S] :
        \A i, j \in 1..Cardinality(S) : i < j => LexLess(s[i], s[j])

\* keys the store can list for prefix p: non-empty, starting with p
KeysUnder(p) == {p \o x : x \in StringsUpTo(MaxSuffixLen)} \ {<<>>}

ObjectInfo(key) == [Key |-> key, Err |-> FALSE]
ErrInfo == [Key |-> <<>>, Err |-> TRUE]

\* ListObjectsV2(bucket, path, true, doneCh): the keys in order; entry e,
\* when e > 0, is an ObjectInfo carrying an error instead of a key
Listings(p) ==
    { [i \in 1..Cardinality(S) |->
          IF i = e THEN ErrInfo ELSE ObjectInfo(SortedSeq(S)[i])] :
      S \in {T \in SUBSET KeysUnder(p) : Cardinality(T) <= MaxList},
      e \in 0..MaxList } 

\* the scenario: prefix reports/2024/, marker, a.json, b.json, root /tmp/out
ScenPrefix == <<"r","e","p","o","r","t","s","/","2","0","2","4","/">>
ScenKeyA == ScenPrefix \o <<"a",".","j","s","o","n">>
ScenKeyB == ScenPrefix \o <<"b",".","j","s","o","n">>
ScenRoot == <<"/","t","m","p","/","o","u","t">>
ScenListing == <<ObjectInfo(ScenPrefix), ObjectInfo(ScenKeyA), ObjectInfo(ScenKeyB)>>

LocalRoots == {<<"o">>, <<"/", "t">>}

\* one goroutine per listing entry; the scenario has three entries
WorkerIds == 1..MaxList

\* ----------------------------------------------------------------- state
VARIABLES
    path,        \* argument path
    localPath,   \* argument localPath
    listing,     \* what objectCh delivers, in order
    idx,         \* entries received from objectCh so far
    mainpc,      \* "list" (l.99), "drain" (l.129), "returned"
    result,      \* the value DownloadDirectory returned
    wg,          \* sync.WaitGroup counter
    wpc,         \* per goroutine: "idle", "run", "send", "finish", "done"
    wcalls,      \* per goroutine: number of s.DownloadFile calls made
    wdest,       \* per goroutine: the local path passed to s.DownloadFile
    wok,         \* per goroutine: "none", "ok", "fail"
    werr,        \* per goroutine: the error s.DownloadFile returned
    files,       \* local file system: set of <<local path, key written>>
    errs,        \* errs slice
    errClosed,   \* number of close(errCh) executed
    closerpc,    \* "idle", "wait" (l.124), "close" (l.125), "done"
    doneClosed,  \* number of close(doneCh) executed
    svc,         \* the *S3Service, NoService while none was constructed
    newCall,     \* the NewS3Service call: what the client answered, what it returned
    call,        \* the latest method call on the service and its arguments
    req,         \* the requests that call made to the client, in order
    ret          \* what that call returned

vars == <<path, localPath, listing, idx, mainpc, result, wg, wpc, wcalls,
          wdest, wok, werr, files, errs, errClosed, closerpc, doneClosed,
          svc, newCall, call, req, ret>>

args == <<path, localPath, listing>>

facade == <<svc, newCall, call, req, ret>>

\* everything DownloadDirectory works on
download == <<path, localPath, listing, idx, mainpc, result, wg, wpc, wcalls,
              wdest, wok, werr, errs, errClosed, closerpc, doneClosed>>

\* --------------------------------------------------------- the S3Service
BucketNames == {"bucket"}

NoService == [s3Client |-> "nil", lifeCycleRules |-> <<>>, bucketName |-> "", urlValues |-> {}]

\* l.40-48: the struct NewS3Service returns
NewService(bucketName) ==
    [s3Client |-> "client", lifeCycleRules |-> <<>>, bucketName |-> bucketName,
     urlValues |-> {<<"response-content-disposition", "inline">>}]

NotConstructed == [called |-> FALSE, bucket |-> "", newOk |-> FALSE, existsOk |-> FALSE, exists |-> FALSE, err |-> "nil"]
Constructed(b, newOk, existsOk, exists, err) ==
    [called |-> TRUE, bucket |-> b, newOk |-> newOk, existsOk |-> existsOk, exists |-> exists, err |-> err]

NoCall == [op |-> "none"]
NoRet == [err |-> "nil", url |-> <<>>]
ErrRet(e) == [err |-> e, url |-> <<>>]

NoResult == [kind |-> "none", at |-> 0, errs |-> <<>>]
NilResult == [kind |-> "nil", at |-> 0, errs |-> <<>>]
EnumResult(k) == [kind |-> "enum", at |-> k, errs |-> <<>>]
AggregateResult(es) == [kind |-> "aggregate", at |-> 0, errs |-> es]

NoKey == <<>>

\* a nil error
NoErr == [msg |-> "nil", key |-> NoKey]

\* the errors FGetObject(bucket, key, dest) can return: an error response of
\* the store, whose text is its message only, or a transport error whose
\* text holds the request URL and with it the key
FGetErrors(key) ==
    {[msg |-> "Access Denied.", key |-> NoKey], [msg |-> "Get", key |-> key]}

\* the value goroutine w sends on errCh: the error it got, unchanged; from
\* tells the sends of different goroutines apart and is not part of the value
DownloadErr(w) == [from |-> w, err |-> werr[w]]

NoDest == <<"-">>

Entries == 1..Len(listing)

\* l.91-97: the state in which DownloadDirectory starts
Fresh ==
    /\ idx = 0
    /\ mainpc = "list"
    /\ result = NoResult
    /\ wg = 0
    /\ wpc = [w \in WorkerIds |-> "idle"]
    /\ wcalls = [w \in WorkerIds |-> 0]
    /\ wdest = [w \in WorkerIds |-> NoDest]
    /\ wok = [w \in WorkerIds |-> "none"]
    /\ werr = [w \in WorkerIds |-> NoErr]
    /\ files = {}
    /\ errs = <<>>
    /\ errClosed = 0
    /\ closerpc = "idle"
    /\ doneClosed = 0

\* a constructed service, on which DownloadDirectory(path, localPath) is called
Init ==
    /\ \/ /\ path \in StringsUpTo(MaxPrefixLen)
          /\ localPath \in LocalRoots
          /\ listing \in Listings(path)
       \/ /\ path = ScenPrefix
          /\ localPath = ScenRoot
          /\ listing = ScenListing
    /\ Fresh
    /\ svc = NewService("bucket")
    /\ newCall = Constructed("bucket", TRUE, TRUE, TRUE, "nil")
    /\ call = NoCall
    /\ req = <<>>
    /\ ret = NoRet

\* ------------------------------------------------ the calling goroutine
EnumError_NoClose ==
    /\ mainpc = "list"
    /\ idx < Len(listing)
    /\ listing[idx + 1].Err
    /\ idx' = idx + 1
    /\ result' = EnumResult(idx + 1)
    /\ mainpc' = "returned"
    /\ UNCHANGED <<args, facade, wg, wpc, wcalls, wdest, wok, werr, files, errs, errClosed, closerpc, doneClosed>>

\* l.99-102: the entry carries an error: return it; the deferred
\* close(doneCh) runs
EnumError ==
    /\ mainpc = "list"
    /\ idx < Len(listing)
    /\ listing[idx + 1].Err
    /\ idx' = idx + 1
    /\ result' = EnumResult(idx + 1)
    /\ mainpc' = "returned"
    /\ doneClosed' = doneClosed + 1
    /\ UNCHANGED <<args, facade, wg, wpc, wcalls, wdest, wok, werr, files, errs, errClosed, closerpc>>

Dispatch_IgnoreErr ==
    /\ mainpc = "list"
    /\ idx < Len(listing)
    /\ idx' = idx + 1
    /\ wg' = wg + 1
    /\ wpc' = [wpc EXCEPT ![idx + 1] = "run"]
    /\ UNCHANGED <<args, facade, mainpc, result, wcalls, wdest, wok, werr, files, errs, errClosed, closerpc, doneClosed>>

Dispatch_SkipMarker ==
    /\ mainpc = "list"
    /\ idx < Len(listing)
    /\ ~listing[idx + 1].Err
    /\ idx' = idx + 1
    /\ IF HasSuffix(listing[idx + 1].Key, Sep)
          THEN UNCHANGED <<wg, wpc>>
          ELSE /\ wg' = wg + 1
               /\ wpc' = [wpc EXCEPT ![idx + 1] = "run"]
    /\ UNCHANGED <<args, facade, mainpc, result, wcalls, wdest, wok, werr, files, errs, errClosed, closerpc, doneClosed>>

Dispatch_StopsOnFailure ==
    /\ mainpc = "list"
    /\ idx < Len(listing)
    /\ ~listing[idx + 1].Err
    /\ \A w \in WorkerIds : wpc[w] # "send"
    /\ idx' = idx + 1
    /\ wg' = wg + 1
    /\ wpc' = [wpc EXCEPT ![idx + 1] = "run"]
    /\ UNCHANGED <<args, facade, mainpc, result, wcalls, wdest, wok, werr, files, errs, errClosed, closerpc, doneClosed>>

\* l.99-120: an entry without error: wg.Add(1) and go func(obj)
Dispatch ==
    /\ mainpc = "list"
    /\ idx < Len(listing)
    /\ ~listing[idx + 1].Err
    /\ idx' = idx + 1
    /\ wg' = wg + 1
    /\ wpc' = [wpc EXCEPT ![idx + 1] = "run"]
    /\ UNCHANGED <<args, facade, mainpc, result, wcalls, wdest, wok, werr, files, errs, errClosed, closerpc, doneClosed>>

ListEnd_NoWait ==
    /\ mainpc = "list"
    /\ idx = Len(listing)
    /\ mainpc' = "drain"
    /\ closerpc' = "close"
    /\ UNCHANGED <<args, facade, idx, result, wg, wpc, wcalls, wdest, wok, werr, files, errs, errClosed, doneClosed>>

\* l.121-126: objectCh is closed: leave the loop, start the goroutine that
\* waits and closes errCh
ListEnd ==
    /\ mainpc = "list"
    /\ idx = Len(listing)
    /\ mainpc' = "drain"
    /\ closerpc' = "wait"
    /\ UNCHANGED <<args, facade, idx, result, wg, wpc, wcalls, wdest, wok, werr, files, errs, errClosed, doneClosed>>

\* l.129-137: the range over errCh ends because errCh is closed; return
\* the aggregate or nil; the deferred close(doneCh) runs
DrainEnd ==
    /\ mainpc = "drain"
    /\ errClosed > 0
    /\ result' = IF Len(errs) > 0 THEN AggregateResult(errs) ELSE NilResult
    /\ mainpc' = "returned"
    /\ doneClosed' = doneClosed + 1
    /\ UNCHANGED <<args, facade, idx, wg, wpc, wcalls, wdest, wok, werr, files, errs, errClosed, closerpc>>

\* ------------------------------------------------- the worker goroutines
WorkerMarker_NoDone(w) ==
    /\ wpc[w] = "run"
    /\ IsDirKey(listing[w].Key)
    /\ wpc' = [wpc EXCEPT ![w] = "done"]
    /\ UNCHANGED <<args, facade, idx, mainpc, result, wg, wcalls, wdest, wok, werr, files, errs, errClosed, closerpc, doneClosed>>

\* l.107-110: the key ends with "/": wg.Done() and return
WorkerMarker(w) ==
    /\ wpc[w] = "run"
    /\ IsDirKey(listing[w].Key)
    /\ wg' = wg - 1
    /\ wpc' = [wpc EXCEPT ![w] = "done"]
    /\ UNCHANGED <<args, facade, idx, mainpc, result, wcalls, wdest, wok, werr, files, errs, errClosed, closerpc, doneClosed>>

\* s.DownloadFile(key, dest) = FGetObject(bucket, key, dest): either the
\* object is written to dest or an error comes back
DownloadFile(w, key, dest, e) ==
    /\ wcalls' = [wcalls EXCEPT ![w] = @ + 1]
    /\ wdest' = [wdest EXCEPT ![w] = dest]
    /\ wok' = [wok EXCEPT ![w] = IF e = NoErr THEN "ok" ELSE "fail"]
    /\ werr' = [werr EXCEPT ![w] = e]
    /\ files' = IF e = NoErr THEN {f \in files : f[1] # dest} \cup {<<dest, key>>}
                      ELSE files

WorkerDownload_AnyKey(w) ==
    /\ wpc[w] = "run"
    /\ \E e \in {NoErr} \cup FGetErrors(listing[w].Key) :
          /\ DownloadFile(w, listing[w].Key, LocalDest(listing[w].Key, path, localPath), e)
          /\ wpc' = [wpc EXCEPT ![w] = IF e = NoErr THEN "finish" ELSE "send"]
    /\ UNCHANGED <<args, facade, idx, mainpc, result, wg, errs, errClosed, closerpc, doneClosed>>

\* l.112-117: derive the local path, download; on error go to the send
WorkerDownload(w) ==
    /\ wpc[w] = "run"
    /\ ~IsDirKey(listing[w].Key)
    /\ \E e \in {NoErr} \cup FGetErrors(listing[w].Key) :
          /\ DownloadFile(w, listing[w].Key, LocalDest(listing[w].Key, path, localPath), e)
          /\ wpc' = [wpc EXCEPT ![w] = IF e = NoErr THEN "finish" ELSE "send"]
    /\ UNCHANGED <<args, facade, idx, mainpc, result, wg, errs, errClosed, closerpc, doneClosed>>

SendErr_Buffered(w) ==
    /\ wpc[w] = "send"
    /\ errClosed = 0
    /\ errs' = Append(errs, DownloadErr(w))
    /\ wpc' = [wpc EXCEPT ![w] = "finish"]
    /\ UNCHANGED <<args, facade, idx, mainpc, result, wg, wcalls, wdest, wok, werr, files, errClosed, closerpc, doneClosed>>

SendErr_Dropped(w) ==
    /\ wpc[w] = "send"
    /\ mainpc = "drain"
    /\ errClosed = 0
    /\ wpc' = [wpc EXCEPT ![w] = "finish"]
    /\ UNCHANGED <<args, facade, idx, mainpc, result, wg, wcalls, wdest, wok, werr, files, errs, errClosed, closerpc, doneClosed>>

\* l.116 with l.129-131: errCh is unbuffered, so the send completes only
\* together with a receive of the drain loop, which appends to errs
SendErr(w) ==
    /\ wpc[w] = "send"
    /\ mainpc = "drain"
    /\ errClosed = 0
    /\ errs' = Append(errs, DownloadErr(w))
    /\ wpc' = [wpc EXCEPT ![w] = "finish"]
    /\ UNCHANGED <<args, facade, idx, mainpc, result, wg, wcalls, wdest, wok, werr, files, errClosed, closerpc, doneClosed>>

\* l.119: wg.Done()
WorkerDone(w) ==
    /\ wpc[w] = "finish"
    /\ wg' = wg - 1
    /\ wpc' = [wpc EXCEPT ![w] = "done"]
    /\ UNCHANGED <<args, facade, idx, mainpc, result, wcalls, wdest, wok, werr, files, errs, errClosed, closerpc, doneClosed>>

\* ------------------------------------------- the wait-and-close goroutine
CloserWait_NoWait ==
    /\ closerpc = "wait"
    /\ closerpc' = "close"
    /\ UNCHANGED <<args, facade, idx, mainpc, result, wg, wpc, wcalls, wdest, wok, werr, files, errs, errClosed, doneClosed>>

\* l.124: wg.Wait() returns when the counter is zero
CloserWait ==
    /\ closerpc = "wait"
    /\ wg = 0
    /\ closerpc' = "close"
    /\ UNCHANGED <<args, facade, idx, mainpc, result, wg, wpc, wcalls, wdest, wok, werr, files, errs, errClosed, doneClosed>>

\* l.125: close(errCh)
CloserClose ==
    /\ closerpc = "close"
    /\ errClosed' = errClosed + 1
    /\ closerpc' = "done"
    /\ UNCHANGED <<args, facade, idx, mainpc, result, wg, wpc, wcalls, wdest, wok, werr, files, errs, doneClosed>>

\* ------------------------------------------------- the facade operations
MaxFolderLen == 2

\* hours
LinkExpiry == 24
Expirations == {1, 24}
DaysToExpiry == {7, 30}
RuleIDs == {<<"r", "1">>}
FolderPaths == StringsUpTo(MaxFolderLen) \cup {<<"l", "o", "g", "s">>}
ObjectPaths == {<<"a">>}
Readers == {"data"}

\* what a call of the client can return as its error
ClientErrs(op) == {"nil", op}

NewS3Service_IgnoreExists ==
    /\ svc = NoService
    /\ ~newCall.called
    /\ \E b \in BucketNames, newOk, existsOk, exists \in BOOLEAN :
          IF ~newOk
            THEN /\ newCall' = Constructed(b, newOk, existsOk, exists, "New")
                 /\ svc' = NoService
                 /\ req' = <<>>
                 /\ ret' = ErrRet("New")
            ELSE /\ req' = <<[op |-> "BucketExists", bucket |-> b]>>
                 /\ IF ~existsOk
                      THEN /\ newCall' = Constructed(b, newOk, existsOk, exists, "BucketExists")
                           /\ svc' = NoService
                           /\ ret' = ErrRet("BucketExists")
                      ELSE /\ newCall' = Constructed(b, newOk, existsOk, exists, "nil")
                           /\ svc' = NewService(b)
                           /\ ret' = NoRet
    /\ call' = [op |-> "NewS3Service"]
    /\ UNCHANGED <<download, files>>

\* l.25-49: minio.New, then BucketExists, then the struct; an error of
\* either call, or a missing bucket, returns nil and an error
NewS3Service ==
    /\ svc = NoService
    /\ ~newCall.called
    /\ \E b \in BucketNames, newOk, existsOk, exists \in BOOLEAN :
          IF ~newOk
            THEN /\ newCall' = Constructed(b, newOk, existsOk, exists, "New")
                 /\ svc' = NoService
                 /\ req' = <<>>
                 /\ ret' = ErrRet("New")
            ELSE /\ req' = <<[op |-> "BucketExists", bucket |-> b]>>
                 /\ IF ~existsOk
                      THEN /\ newCall' = Constructed(b, newOk, existsOk, exists, "BucketExists")
                           /\ svc' = NoService
                           /\ ret' = ErrRet("BucketExists")
                      ELSE IF ~exists
                      THEN /\ newCall' = Constructed(b, newOk, existsOk, exists, "s3 bucket doesn't exist")
                           /\ svc' = NoService
                           /\ ret' = ErrRet("s3 bucket doesn't exist")
                      ELSE /\ newCall' = Constructed(b, newOk, existsOk, exists, "nil")
                           /\ svc' = NewService(b)
                           /\ ret' = NoRet
    /\ call' = [op |-> "NewS3Service"]
    /\ UNCHANGED <<download, files>>

FolderPrefix_Always(folderPath) == folderPath \o Sep

\* l.54-56: folderPath, with "/" appended when it does not end with "/"
FolderPrefix(folderPath) ==
    IF ~HasSuffix(folderPath, Sep) THEN folderPath \o Sep ELSE folderPath

Digits == <<"0", "1", "2", "3", "4", "5", "6", "7", "8", "9">>

\* %d of a non-negative int
RECURSIVE Itoa(_)
Itoa(n) == IF n < 10 THEN <<Digits[n + 1]>> ELSE Itoa(n \div 10) \o <<Digits[(n % 10) + 1]>>

XmlOpenID == "<LifecycleConfiguration><Rule><ID>"
XmlOpenPrefix == "</ID><Prefix>"
XmlOpenDays == "</Prefix><Status>Enabled</Status><Expiration><Days>"
XmlClose == "</Days></Expiration></Rule></LifecycleConfiguration>"

\* l.58-60: the Sprintf; the literal parts of the format are one element
\* each, the arguments are spelled out character by character
LifeCycleString(ruleID, folderPath, daysToExpiry) ==
    <<XmlOpenID>> \o ruleID \o <<XmlOpenPrefix>> \o folderPath \o <<XmlOpenDays>>
        \o Itoa(daysToExpiry) \o <<XmlClose>>

\* l.53-63
AddLifeCycleRule(ruleID, folderPath, daysToExpiry) ==
    /\ svc # NoService
    /\ call' = [op |-> "AddLifeCycleRule", ruleID |-> ruleID, folderPath |-> folderPath,
                daysToExpiry |-> daysToExpiry]
    /\ req' = <<[op |-> "SetBucketLifecycle", bucket |-> svc.bucketName,
                 policy |-> LifeCycleString(ruleID, FolderPrefix(folderPath), daysToExpiry)]>>
    /\ \E e \in ClientErrs("SetBucketLifecycle") : ret' = ErrRet(e)
    /\ UNCHANGED <<download, files, svc, newCall>>

PutObject(p, data) ==
    [op |-> "PutObject", bucket |-> svc.bucketName, key |-> p, data |-> data,
     size |-> -1, contentType |-> "application/json"]

PresignedGetObject(p, expiry) ==
    [op |-> "PresignedGetObject", bucket |-> svc.bucketName, key |-> p,
     expiry |-> expiry, reqParams |-> svc.urlValues]

\* the URL the client makes of a presign request
UrlOf(r) == <<r.bucket, r.key, r.expiry, r.reqParams>>

\* l.66-69
UploadJSONFile(p, data) ==
    /\ svc # NoService
    /\ call' = [op |-> "UploadJSONFile", path |-> p, data |-> data]
    /\ req' = <<PutObject(p, data)>>
    /\ \E e \in ClientErrs("PutObject") : ret' = ErrRet(e)
    /\ UNCHANGED <<download, files, svc, newCall>>

GetFileURL_SetsParam(p, expiration) ==
    /\ svc # NoService
    /\ call' = [op |-> "GetFileURL", path |-> p, expiration |-> expiration]
    /\ svc' = [svc EXCEPT !.urlValues = @ \cup {<<"X-Amz-Expires", expiration>>}]
    /\ req' = <<PresignedGetObject(p, expiration)>>
    /\ \E ok \in BOOLEAN :
          ret' = IF ok THEN [err |-> "nil", url |-> UrlOf(PresignedGetObject(p, expiration))]
                       ELSE ErrRet("PresignedGetObject")
    /\ UNCHANGED <<download, files, newCall>>

\* l.73-75
GetFileURL(p, expiration) ==
    /\ svc # NoService
    /\ call' = [op |-> "GetFileURL", path |-> p, expiration |-> expiration]
    /\ req' = <<PresignedGetObject(p, expiration)>>
    /\ \E ok \in BOOLEAN :
          ret' = IF ok THEN [err |-> "nil", url |-> UrlOf(PresignedGetObject(p, expiration))]
                       ELSE ErrRet("PresignedGetObject")
    /\ UNCHANGED <<download, files, svc, newCall>>

\* l.79-86: PutObject; on its error return it; else PresignedGetObject
\* with 24*time.Hour
UploadJSONFileWithLink(p, data, expiration) ==
    /\ svc # NoService
    /\ call' = [op |-> "UploadJSONFileWithLink", path |-> p, data |-> data,
                expiration |-> expiration]
    /\ \E putOk, signOk \in BOOLEAN :
          IF ~putOk
            THEN /\ req' = <<PutObject(p, data)>>
                 /\ ret' = ErrRet("PutObject")
            ELSE /\ req' = <<PutObject(p, data), PresignedGetObject(p, LinkExpiry)>>
                 /\ ret' = IF signOk
                             THEN [err |-> "nil", url |-> UrlOf(PresignedGetObject(p, LinkExpiry))]
                             ELSE ErrRet("PresignedGetObject")
    /\ UNCHANGED <<download, files, svc, newCall>>

\* l.141-143, called by the application: FGetObject writes the file or
\* returns an error
DownloadFileCall(p, lp) ==
    /\ svc # NoService
    /\ call' = [op |-> "DownloadFile", path |-> p, localPath |-> lp]
    /\ req' = <<[op |-> "FGetObject", bucket |-> svc.bucketName, key |-> p, localPath |-> lp]>>
    /\ \E e \in {NoErr} \cup FGetErrors(p) :
          /\ ret' = ErrRet(e.msg)
          /\ files' = IF e = NoErr THEN {f \in files : f[1] # lp} \cup {<<lp, p>>}
                                   ELSE files
    /\ UNCHANGED <<download, svc, newCall>>

Worker(w) ==
    \/ WorkerMarker(w)
    \/ WorkerDownload(w)
    \/ SendErr(w)
    \/ WorkerDone(w)

Main == EnumError \/ Dispatch \/ ListEnd \/ DrainEnd

Closer == CloserWait \/ CloserClose

Next ==
    \/ EnumError
    \/ Dispatch
    \/ ListEnd
    \/ DrainEnd
    \/ \E w \in WorkerIds : WorkerMarker(w)
    \/ \E w \in WorkerIds : WorkerDownload(w)
    \/ \E w \in WorkerIds : SendErr(w)
    \/ \E w \in WorkerIds : WorkerDone(w)
    \/ CloserWait
    \/ CloserClose

Spec == Init /\ [][Next]_vars

\* every goroutine that can take a step eventually takes one
FairSpec ==
    /\ Spec
    /\ WF_vars(Main)
    /\ WF_vars(Closer)
    /\ \A w \in WorkerIds : WF_vars(Worker(w))

\* the DownloadDirectory calls the service is put through next to its
\* other methods: a marker and an object, and a listing that breaks off
ServiceArgs ==
    {<<<<"a">>, <<"o">>, <<ObjectInfo(<<"a", "/">>), ObjectInfo(<<"a", "/", "a">>)>>>>,
     <<<<"a">>, <<"o">>, <<ObjectInfo(<<"a", "/", "a">>), ErrInfo>>>>}

ServiceInit ==
    /\ \E a \in ServiceArgs : path = a[1] /\ localPath = a[2] /\ listing = a[3]
    /\ Fresh
    /\ svc = NoService
    /\ newCall = NotConstructed
    /\ call = NoCall
    /\ req = <<>>
    /\ ret = NoRet

\* the methods need the service NewS3Service returned
DownloadDirectory == svc # NoService /\ Next

ServiceNext ==
    \/ NewS3Service
    \/ \E r \in RuleIDs, f \in FolderPaths, d \in DaysToExpiry : AddLifeCycleRule(r, f, d)
    \/ \E p \in ObjectPaths, data \in Readers : UploadJSONFile(p, data)
    \/ \E p \in ObjectPaths, x \in Expirations : GetFileURL(p, x)
    \/ \E p \in ObjectPaths, data \in Readers, x \in Expirations : UploadJSONFileWithLink(p, data, x)
    \/ \E p \in ObjectPaths : DownloadFileCall(p, <<"o", "/", "a">>)
    \/ DownloadDirectory

ServiceSpec == ServiceInit /\ [][ServiceNext]_vars

\* ------------------------------------------------------------ vocabulary
Returned == mainpc = "returned"
NoEnumErr == \A i \in Entries : ~listing[i].Err
FirstErr == CHOOSE k \in Entries : listing[k].Err /\ \A j \in 1..(k - 1) : ~listing[j].Err
Dispatched == {w \in WorkerIds : wpc[w] # "idle"}
Failed == {w \in WorkerIds : wok[w] = "fail"}
Files == {w \in Entries : ~listing[w].Err /\ ~HasSuffix(listing[w].Key, Sep)}
Markers == {w \in Entries : ~listing[w].Err /\ HasSuffix(listing[w].Key, Sep)}
Occurrences(es, e) == Cardinality({i \in 1..Len(es) : es[i] = e})
Paths(set) == {f[1] : f \in set}

\* C1: with a listing that carries no enumeration error, under fair
\* scheduling of every goroutine, DownloadDirectory eventually returns.
C1_EventuallyReturns == NoEnumErr ~> Returned

C1_Witness ==
    /\ Returned /\ NoEnumErr
    /\ Cardinality(Failed) >= 2
    /\ \E w \in Entries : wok[w] = "ok"

\* C2: after a listing without enumeration error, the returned aggregate
\* holds exactly one record per goroutine whose download failed and none
\* else, and nil is returned exactly when no download failed.
C2_NoErrorLostOrInvented ==
    (Returned /\ NoEnumErr) =>
        /\ \A w \in WorkerIds :
              Occurrences(result.errs, DownloadErr(w)) = (IF w \in Failed THEN 1 ELSE 0)
        /\ Len(result.errs) = Cardinality(Failed)
        /\ (result.kind = "nil") <=> (Failed = {})
        /\ (result.kind = "aggregate") <=> (Failed # {})

C2_Witness ==
    /\ Returned /\ NoEnumErr
    /\ Cardinality(Files) >= 2
    /\ Cardinality(Failed) = 1
    /\ result.kind = "aggregate" /\ Len(result.errs) = 1

\* C3: once DownloadDirectory has returned an enumeration error, every
\* goroutine it had already started eventually finishes.
C3_DispatchedEventuallyFinish ==
    (Returned /\ result.kind = "enum") ~> (\A w \in Dispatched : wpc[w] = "done")

\* C4: when DownloadDirectory returns nil or an aggregate, every goroutine
\* it started has finished.
C4_NoEarlyResult ==
    (Returned /\ result.kind \in {"nil", "aggregate"}) =>
        /\ wg = 0
        /\ \A w \in Entries : wpc[w] = "done"

C4_Witness ==
    /\ Returned /\ result.kind = "aggregate"
    /\ Cardinality(Dispatched) >= 2
    /\ \E w \in Entries : wok[w] = "ok"

\* C5: no goroutine is ever started for an entry at or after the first
\* enumeration error K; the call returns after consuming exactly K entries
\* and its result is that enumeration error, never an aggregate.
C5_EnumFailFast ==
    /\ \A w \in Dispatched : \A k \in 1..w : ~listing[k].Err
    /\ (Returned /\ ~NoEnumErr) =>
          /\ result = EnumResult(FirstErr)
          /\ idx = FirstErr
    /\ ~NoEnumErr => idx <= FirstErr

C5_Witness ==
    /\ Returned /\ result.kind = "enum"
    /\ result.at < Len(listing)
    /\ \E w \in Dispatched : wok[w] = "fail"
    /\ \E w \in Entries : w > result.at /\ ~listing[w].Err /\ wpc[w] = "idle"

\* C6: no goroutine downloads more than once; a pending entry without
\* error can always be dispatched, whatever the other goroutines are doing;
\* when a listing without enumeration error has been worked off, every
\* non-directory entry has been downloaded exactly once.
C6_FailSoft ==
    /\ \A w \in WorkerIds : wcalls[w] <= 1
    /\ (mainpc = "list" /\ idx < Len(listing) /\ ~listing[idx + 1].Err) => ENABLED Dispatch
    /\ (Returned /\ NoEnumErr) => \A w \in Files : wcalls[w] = 1

C6_Witness ==
    /\ \E w, v \in Files : w < v /\ wpc[w] = "send" /\ wok[v] = "ok" /\ wpc[v] = "finish"
    /\ mainpc = "list"

\* C7: with prefix reports/2024/ and root /tmp/out, the objects
\* reports/2024/a.json and reports/2024/b.json are downloaded to
\* /tmp/out/a.json and /tmp/out/b.json.
C7_TrailingSeparatorStripped ==
    (path = ScenPrefix /\ localPath = ScenRoot) =>
        /\ wcalls[2] > 0 => wdest[2] = ScenRoot \o Sep \o <<"a",".","j","s","o","n">>
        /\ wcalls[3] > 0 => wdest[3] = ScenRoot \o Sep \o <<"b",".","j","s","o","n">>

\* the remainder of key after path and one separator, when key starts so
Remainders(key) ==
    {r \in {SubSeq(key, i, Len(key)) : i \in 1..(Len(key) + 1)} : key = path \o Sep \o r}
Stripped(key) == IF Remainders(key) = {} THEN key ELSE CHOOSE r \in Remainders(key) : TRUE

\* C8: every download is handed localPath, a separator, and the key without
\* its leading path + separator; when all downloads of a listing without
\* enumeration error succeeded, nil is returned and every object was
\* written to that path.
C8_LocalDestination ==
    /\ \A w \in WorkerIds : wcalls[w] > 0 =>
          wdest[w] = localPath \o Sep \o Stripped(listing[w].Key)
    /\ (Returned /\ NoEnumErr /\ Failed = {}) =>
          /\ result = NilResult
          /\ \A w \in Files :
                /\ wok[w] = "ok"
                /\ (localPath \o Sep \o Stripped(listing[w].Key)) \in Paths(files)

C8_Witness ==
    /\ Returned /\ NoEnumErr /\ Failed = {}
    /\ \E w, v \in Files :
          /\ Remainders(listing[w].Key) # {} /\ Stripped(listing[w].Key) # <<>>
          /\ Remainders(listing[v].Key) = {}

\* C9: two goroutines of one call that download distinct keys are handed
\* distinct local paths.
C9_Injective ==
    \A w, v \in WorkerIds :
        (w # v /\ wcalls[w] > 0 /\ wcalls[v] > 0 /\ listing[w].Key # listing[v].Key)
            => wdest[w] # wdest[v]

\* C10: a key ending with the separator is never downloaded and yields no
\* failure record; a listing of markers only ends in nil with no download.
C10_MarkerNeverDownloaded ==
    /\ \A w \in Markers :
          /\ wcalls[w] = 0 /\ wdest[w] = NoDest /\ wok[w] = "none"
          /\ Occurrences(errs, DownloadErr(w)) = 0
          /\ \A f \in files : f[2] # listing[w].Key
    /\ (Returned /\ NoEnumErr /\ Files = {}) =>
          /\ result = NilResult
          /\ files = {}
          /\ \A w \in WorkerIds : wcalls[w] = 0

C10_Witness ==
    /\ Returned /\ NoEnumErr /\ Files = {}
    /\ Cardinality(Markers) >= 2
    /\ \A w \in Markers : wpc[w] = "done"

\* C11: close(doneCh) has run exactly once when DownloadDirectory has
\* returned, by whichever path, and not at all before that; in particular
\* never while the listing is being consumed.
C11_DoneClosedOnceAtReturn ==
    /\ doneClosed = (IF Returned THEN 1 ELSE 0)
    /\ mainpc \in {"list", "drain"} => doneClosed = 0

C11_Witness ==
    /\ Returned /\ result.kind = "enum" /\ doneClosed = 1
    /\ \E w \in Dispatched : wpc[w] # "done"

\* C12: every record of the returned aggregate names the key of the object
\* whose download failed.
C12_RecordNamesKey ==
    (Returned /\ result.kind = "aggregate") =>
        \A i \in 1..Len(result.errs) :
            result.errs[i].err.key = listing[result.errs[i].from].Key

\* C17: errCh is closed at most once; once it is closed every goroutine
\* started by the call has finished, so none is sending or still to send.
C17_CloseAfterLastWriter ==
    /\ errClosed <= 1
    /\ errClosed > 0 =>
          /\ idx = Len(listing)
          /\ \A w \in Entries : wpc[w] = "done"
          /\ wg = 0
    /\ (mainpc = "returned" /\ result.kind # "enum") => errClosed = 1

C17_Witness ==
    /\ errClosed = 1 /\ mainpc = "drain"
    /\ Cardinality(Failed) >= 2
    /\ Len(errs) = Cardinality(Failed)

C19_NoReceiveWhileListing ==
    mainpc = "list" =>
        /\ errs = <<>>
        /\ \A w \in Failed : wpc[w] = "send"
        /\ closerpc = "idle" /\ errClosed = 0

C19_Witness ==
    /\ mainpc = "list" /\ idx < Len(listing)
    /\ \E w \in Failed : wpc[w] = "send"
    /\ \E w \in Dispatched : wok[w] = "ok" /\ wpc[w] = "done"

\* ------------------------------------------- reading a submitted policy
IndexOf(seq, tok) == CHOOSE i \in 1..Len(seq) : seq[i] = tok
Between(seq, open, close) == SubSeq(seq, IndexOf(seq, open) + 1, IndexOf(seq, close) - 1)
DigitVal(c) == CHOOSE d \in 0..9 : Digits[d + 1] = c
RECURSIVE Atoi(_)
Atoi(ds) == IF ds = <<>> THEN 0 ELSE Atoi(SubSeq(ds, 1, Len(ds) - 1)) * 10 + DigitVal(ds[Len(ds)])
SubmittedID == Between(req[1].policy, XmlOpenID, XmlOpenPrefix)
SubmittedPrefix == Between(req[1].policy, XmlOpenPrefix, XmlOpenDays)
SubmittedDays == Atoi(Between(req[1].policy, XmlOpenDays, XmlClose))
TrailingSeps(str) == Cardinality({k \in 1..Len(str) : \A i \in (Len(str) - k + 1)..Len(str) : str[i] = "/"})

\* C13: a successful UploadJSONFileWithLink(path, data, expiration) asks for
\* the presigned URL with expiry = expiration.
C13_LinkExpiresAsSpecified ==
    (call.op = "UploadJSONFileWithLink" /\ Len(req) = 2) =>
        /\ req[2].op = "PresignedGetObject"
        /\ req[2].expiry = call.expiration

\* C14 as stated: the submitted prefix ends with exactly one separator,
\* is folderPath + "/" when folderPath lacks the separator and folderPath
\* otherwise; rule ID and day count are submitted as given.
C14_ExactlyOneTrailingSep ==
    call.op = "AddLifeCycleRule" =>
        /\ TrailingSeps(SubmittedPrefix) = 1
        /\ SubmittedPrefix =
              (IF TrailingSeps(call.folderPath) = 0 THEN call.folderPath \o Sep ELSE call.folderPath)
        /\ SubmittedID = call.ruleID
        /\ SubmittedDays = call.daysToExpiry

\* C14 amended: the submitted prefix ends with the separator: it is
\* folderPath + "/" when folderPath lacks a trailing separator and
\* folderPath itself, with all its trailing separators, otherwise;
\* normalizing it again changes nothing; rule ID and day count are
\* submitted as given.
C14_PrefixEndsWithSep ==
    call.op = "AddLifeCycleRule" =>
        /\ TrailingSeps(SubmittedPrefix) >= 1
        /\ TrailingSeps(SubmittedPrefix) = (IF TrailingSeps(call.folderPath) = 0 THEN 1 ELSE TrailingSeps(call.folderPath))
        /\ SubmittedPrefix =
              (IF TrailingSeps(call.folderPath) = 0 THEN call.folderPath \o Sep ELSE call.folderPath)
        /\ FolderPrefix(SubmittedPrefix) = SubmittedPrefix
        /\ SubmittedID = call.ruleID
        /\ SubmittedDays = call.daysToExpiry
        /\ req[1].op = "SetBucketLifecycle" /\ req[1].bucket = svc.bucketName

C14_Witness ==
    /\ call.op = "AddLifeCycleRule"
    /\ call.folderPath = <<"l", "o", "g", "s">>
    /\ SubmittedPrefix = <<"l", "o", "g", "s", "/">>
    /\ call.daysToExpiry = 30

\* C15: once constructed, the service value never changes, whichever
\* method or goroutine takes a step.
C15_SessionImmutable == [][svc # NoService => svc' = svc]_vars

C15_Witness ==
    /\ svc = NewService("bucket")
    /\ call.op = "GetFileURL"
    /\ Returned
    /\ \E w \in Dispatched : wok[w] # "none"

\* C16: there is a service only if minio.New succeeded and BucketExists
\* succeeded and answered true; in every other case NewS3Service returned
\* an error and no service.
C16_ServiceOnlyIfBucketExists ==
    /\ svc # NoService =>
          /\ newCall.called /\ newCall.newOk /\ newCall.existsOk /\ newCall.exists
          /\ newCall.err = "nil"
          /\ svc.bucketName = newCall.bucket
    /\ (newCall.called /\ ~(newCall.newOk /\ newCall.existsOk /\ newCall.exists)) =>
          /\ svc = NoService
          /\ newCall.err # "nil"
    /\ (newCall.called /\ newCall.newOk /\ newCall.existsOk /\ newCall.exists) => svc # NoService

C16_Witness ==
    /\ newCall.called /\ newCall.newOk /\ newCall.existsOk /\ ~newCall.exists
    /\ svc = NoService
    /\ newCall.err = "s3 bucket doesn't exist"

====
